---- MODULE Spec2Model ----
(***************************************************************************)
(* The football match notification service as state machines: the event    *)
(* detector (event_detector.py) with its two collections and one action    *)
(* per public method, the circuit breaker and the retry decorator          *)
(* (retry.py), the scheduler with its worker threads (scheduler.py), and   *)
(* history variables that record the last call for the properties.  Each   *)
(* specification moves one component and leaves the others as constructed. *)
(***************************************************************************)
EXTENDS Integers, Sequences, FiniteSets, TLC

\* ------------------------------------------------------------------ bounds
MaxHomeGoals == 2
MaxAwayGoals == 1
\* Home goals of the two matches polled where the detector also clears state.
MaxRichGoals == 1
\* Constructor arguments of the circuit breakers exercised on their own, the
\* failures recorded on one breaker and the readings of the clock.
MaxThreshold == 3
MaxTimeout == 2
MaxFailures == 4
MaxTime == 4
\* Retry wrapper: largest max_retries, failures recorded on an endpoint's
\* breaker, seconds between two clock readings and the last clock reading.
MaxRetries == 2
MaxEndpointFailures == 6
TickSeconds == 30
MaxRetryTime == 120
\* A max_delay argument small enough for the backoff schedule to reach it.
SmallMaxDelay == 3
\* An initial_delay argument above that max_delay.
LargeInitialDelay == 4
\* An initial_delay argument that reaches that max_delay with one increase.
MidInitialDelay == 2
\* Worker threads one scheduler may start.
MaxThreads == 2
\* Seconds by which the scheduler's clock advances, and where it stops.
SchedTick == 5
MaxSchedTime == 10
\* add_task and remove_task calls made while the scheduler is in use.
MaxRegistrations == 2
\* Hours by which the tracker's clock advances, where it stops, and the later
\* of the two start times of its matches.
TrackerTick == 192
MaxTrackerTime == 192
LateStart == 48
\* Largest home score when two matches are polled in turn.
MaxPairGoals == 1

\* ------------------------------------------------------------- data model
\* Python None where a Match is expected, and where a team id is expected.
None == [none |-> TRUE]
NoTeam == "None"

\* Match ids polled by the service; event ids embed the match id.
MatchIds == {"m1"}

\* MatchStatus members (models.py) that the detector's predicates tell apart:
\* a not-yet-live status, the three live ones and a terminal one.
MatchStatus == {"SCHEDULED", "IN_PLAY", "PAUSED", "HALF_TIME", "FINISHED"}

\* The "live" set of the specification (IN_PLAY family).
LiveSet == {"IN_PLAY", "HALF_TIME", "PAUSED"}

\* Team ids of a match: home_team.id and away_team.id.
HomeTeamId(mid) == "H"
AwayTeamId(mid) == "A"

\* A Match snapshot: the fields of Match the detector reads.
Match == [id : MatchIds, status : MatchStatus,
          home : 0..MaxHomeGoals, away : 0..MaxAwayGoals]

\* The terminal set used for retention pruning.
TerminalSet == {"FINISHED", "CANCELLED", "POSTPONED"}

\* Two matches polled side by side where state is cleared per match: one
\* with a live and two terminal statuses and home goals, a goalless one that
\* is live or cancelled.
RichMatchIds == {"m1", "m2"}
RichStatus == {"IN_PLAY", "FINISHED", "CANCELLED"}
RichMatch ==
    [id : {"m1"}, status : RichStatus, home : 0..MaxRichGoals, away : {0}]
      \cup [id : {"m2"}, status : {"IN_PLAY", "CANCELLED"}, home : {0}, away : {0}]

\* Attributes the Match dataclass of models.py declares.
DataclassAttrs == {"id", "home_team", "away_team", "start_time", "status",
                   "score", "competition", "venue", "referee", "round", "season"}

\* Attributes of the Match objects the detector is written for: it also reads
\* match.minute and calls match.copy().
DetectorAttrs == DataclassAttrs \cup {"minute", "copy"}

VARIABLES
    previous_states,   \* EventDetector._previous_states : match id -> Match or None
    detected_events,   \* EventDetector._detected_events : set of event ids
    statusRepr,        \* how Match.status is represented: "enum" member or raw "str"
    matchAttrs,        \* attributes the Match objects passed to the detector have
    outcome,           \* last call: "init", "reset", "returned" or "raised"
    result,            \* list returned by the last detect_events call
    lastMatch,         \* argument of the last detect_events call
    lastPrev,          \* snapshot stored for that id when the call began
    seenBefore,        \* _detected_events when the call began
    returnedEver,      \* event ids returned since construction, reset or clear of their match
    dupReturned,       \* some call returned an id that an earlier call had returned
    scenStep,          \* calls of the end-to-end poll sequence made so far, -1 = off it
    scenOut,           \* the lists those calls returned
    statesBefore,      \* _previous_states when the last call began
    droppedBefore,     \* seen ids of the polled match that the call before dropped
    clearedId,         \* argument of clear_match_state when that is the last call or
                       \* the call right before the last detect call, else NoTeam
    fetched,           \* what the events-list fetch of the last detect call gave
    cb,                \* a CircuitBreaker object used on its own, or None
    now,               \* time.time()
    cbOp,              \* last method called on cb, "tick" once the clock has advanced
    cbBefore,          \* cb when that call began
    allowed,           \* what the last allow_request call on cb returned
    streak,            \* record_failure calls on cb since its construction or the
                       \* last record_success
    failedAt,          \* clock reading at the last record_failure call on cb
    circuit_breakers,  \* retry._circuit_breakers : endpoint -> CircuitBreaker or None
    cfg,               \* arguments of the retry(...) decorator
    pc,                \* "idle", or "running" inside the wrapper's loop
    endpoint,          \* endpoint of the current or last wrapper call
    retries,           \* wrapper local
    delay,             \* wrapper local
    attempts,          \* outcomes of the invocations of func in that call, in order
    sleeps,            \* the sleeps of that call, in order (see Slept)
    callResult,        \* "none", "returned" or "raised"
    raisedErr,         \* the exception the wrapper raised, else "none"
    startBreaker,      \* the endpoint's breaker when the call began, or None
    startedAt,         \* clock reading when the call began
    openInvocation,    \* "first"/"retry": func was invoked in that call while the
                       \* breaker was OPEN with the timeout not elapsed; else "none"
    tasks,             \* Scheduler.tasks : name -> Task
    check_interval,    \* Scheduler.check_interval
    _running,          \* Scheduler._running
    _thread,           \* Scheduler._thread: the thread started last, 0 for None
    _stop_event,       \* Scheduler._stop_event is set
    threads,           \* the worker threads: position in _run/_check_tasks, locals,
                       \* and what happened to them
    clock,             \* datetime.now(), in seconds
    mainPc,            \* "idle", or "joining" inside stop()
    joinStart,         \* clock reading when the join began
    schedOp,           \* the last step: "start", "stop" (returned), "stopping",
                       \* "thread", "time"
    schedBefore,       \* Snapshot when the start() or stop() that was the last
                       \* step was called
    lastExec,          \* the Task.execute() that finished with the last step: task
                       \* before and after, outcome; else NoExec
    registered,        \* add_task and remove_task calls made since start-up
    matches,           \* MatchTracker.matches : match id -> Match
    trackerNow,        \* datetime.now() of the tracker, in hours
    trCall,            \* the last call on the tracker and its inputs
    trBefore,          \* matches when that call began
    trReturn           \* the objects that call returned, as a tuple

detectorVars ==
    <<previous_states, detected_events, statusRepr, matchAttrs, outcome,
      result, lastMatch, lastPrev, seenBefore, returnedEver, dupReturned,
      scenStep, scenOut, statesBefore, droppedBefore, clearedId, fetched>>

breakerVars == <<cb, now, cbOp, cbBefore, allowed, streak, failedAt>>

retryVars ==
    <<circuit_breakers, cfg, pc, endpoint, retries, delay, attempts, sleeps,
      callResult, raisedErr, startBreaker, startedAt, openInvocation>>

schedulerVars ==
    <<tasks, check_interval, _running, _thread, _stop_event, threads, clock,
      mainPc, joinStart, schedOp, schedBefore, lastExec, registered>>

trackerVars == <<matches, trackerNow, trCall, trBefore, trReturn>>

vars == <<detectorVars, breakerVars, retryVars, schedulerVars, trackerVars>>

\* ------------------------------------------------------------ event values
\* f"{match.id}_start", f"{match.id}_half_time", f"{match.id}_end",
\* f"{match.id}_{team.id}_goal_{n}" as structured values.
EventId(mid, kind, team, n) == [match |-> mid, kind |-> kind, team |-> team, n |-> n]

\* The ids that embed one of the match ids (no modelled id is a prefix of
\* another, so "prefixed by match_id" is "of match_id").
IdsOf(ids, match_ids) == {id \in ids : id.match \in match_ids}

Event(id, type, team) == [id |-> id, match_id |-> id.match, type |-> type, team_id |-> team]

_create_match_start_event(match) ==
    Event(EventId(match.id, "start", NoTeam, 0), "MATCH_START", NoTeam)

_create_half_time_event(match) ==
    Event(EventId(match.id, "half_time", NoTeam, 0), "HALF_TIME", NoTeam)

_create_match_end_event(match) ==
    Event(EventId(match.id, "end", NoTeam, 0), "MATCH_END", NoTeam)

Mut_create_goal_event(match, is_home_team, goal_number) ==
    LET team == IF is_home_team THEN HomeTeamId(match.id) ELSE AwayTeamId(match.id)
    IN  Event(EventId("m1", "goal", team, goal_number), "GOAL", team)

_create_goal_event(match, is_home_team, goal_number) ==
    LET team == IF is_home_team THEN HomeTeamId(match.id) ELSE AwayTeamId(match.id)
    IN  Event(EventId(match.id, "goal", team, goal_number), "GOAL", team)

\* ------------------------------------------------------- status comparison
\* Python's `status == "LITERAL"`: a plain Enum member never equals a str,
\* a raw string equals it by value.
StrEq(status, literal) == statusRepr = "str" /\ status = literal

\* ------------------------------------------------------ detection predicates
Mut_is_match_start(current, previous) ==
    IF previous = None
    THEN current.status = "IN_PLAY"
    ELSE ~StrEq(previous.status, "IN_PLAY") /\ StrEq(current.status, "IN_PLAY")

_is_match_start(current, previous) ==
    IF previous = None
    THEN TRUE
    ELSE ~StrEq(previous.status, "IN_PLAY") /\ StrEq(current.status, "IN_PLAY")

Mut_is_half_time(current, previous) ==
    IF previous = None
    THEN FALSE
    ELSE current.status = "HALF_TIME"

_is_half_time(current, previous) ==
    IF previous = None
    THEN FALSE
    ELSE previous.status = "IN_PLAY" /\ current.status = "HALF_TIME"

Mut_is_match_end(current, previous) ==
    IF previous = None
    THEN FALSE
    ELSE previous.status \in LiveSet /\ current.status = "FINISHED"

_is_match_end(current, previous) ==
    IF previous = None
    THEN FALSE
    ELSE previous.status = "IN_PLAY" /\ current.status = "FINISHED"

\* [_create_goal_event(match, is_home_team, i) for i in range(lo, hi + 1)]
GoalRange(match, is_home_team, lo, hi) ==
    IF hi < lo THEN <<>>
    ELSE [i \in 1..(hi - lo + 1) |-> _create_goal_event(match, is_home_team, lo + i - 1)]

Mut_detect_goals(current, previous) ==
    IF previous = None
    THEN GoalRange(current, TRUE, 1, current.home)
         \o GoalRange(current, FALSE, 1, current.away)
    ELSE (IF current.home >= previous.home
          THEN GoalRange(current, TRUE, previous.home, current.home) ELSE <<>>)
         \o
         (IF current.away >= previous.away
          THEN GoalRange(current, FALSE, previous.away, current.away) ELSE <<>>)

_detect_goals(current, previous) ==
    IF previous = None
    THEN GoalRange(current, TRUE, 1, current.home)
         \o GoalRange(current, FALSE, 1, current.away)
    ELSE (IF current.home > previous.home
          THEN GoalRange(current, TRUE, previous.home + 1, current.home) ELSE <<>>)
         \o
         (IF current.away > previous.away
          THEN GoalRange(current, FALSE, previous.away + 1, current.away) ELSE <<>>)

\* ---------------------------------------------------------- deduplication
RECURSIVE FilterFrom(_, _, _, _)
FilterFrom(events, i, seen, unique) ==
    IF i > Len(events) THEN [unique |-> unique, seen |-> seen]
    ELSE IF events[i].id \notin seen
         THEN FilterFrom(events, i + 1, seen \cup {events[i].id}, Append(unique, events[i]))
         ELSE FilterFrom(events, i + 1, seen, unique)

Mut_filter_duplicate_events(events, seen) ==
    [unique |-> events, seen |-> seen \cup {events[i].id : i \in 1..Len(events)}]

_filter_duplicate_events(events, seen) == FilterFrom(events, 1, seen, <<>>)

\* ----------------------------------------------- the list built by detect
MutCandidateEvents(match, previous) ==
    (IF _is_match_start(match, previous)
     THEN <<_create_match_start_event(match)>> ELSE <<>>)
    \o (IF _is_half_time(match, previous)
        THEN <<_create_half_time_event(match)>> ELSE <<>>)
    \o (IF _is_match_end(match, previous)
        THEN <<_create_match_end_event(match)>> ELSE <<>>)
    \o _detect_goals(match, previous)

\* events, in the order detect_events appends them:
\* match start, goals (home then away), half-time, match end.
CandidateEvents(match, previous) ==
    (IF _is_match_start(match, previous)
     THEN <<_create_match_start_event(match)>> ELSE <<>>)
    \o _detect_goals(match, previous)
    \o (IF _is_half_time(match, previous)
        THEN <<_create_half_time_event(match)>> ELSE <<>>)
    \o (IF _is_match_end(match, previous)
        THEN <<_create_match_end_event(match)>> ELSE <<>>)

\* match.copy(): a value equal to the snapshot.
MatchCopy(match) == match

\* ------------------------------------------------ end-to-end poll sequence
Snap(mid, status, home, away) ==
    [id |-> mid, status |-> status, home |-> home, away |-> away]

Scenario ==
    << Snap("m1", "SCHEDULED", 0, 0), Snap("m1", "IN_PLAY", 0, 0),
       Snap("m1", "IN_PLAY", 1, 0),   Snap("m1", "HALF_TIME", 1, 0),
       Snap("m1", "IN_PLAY", 1, 0),   Snap("m1", "FINISHED", 2, 0) >>

\* ------------------------------------------------- events-list enrichment
\* A card of the home team as the events-list of a match reports it.
CardEvent(mid) == Event(EventId(mid, "card", HomeTeamId(mid), 30), "YELLOW_CARD", HomeTeamId(mid))

\* No fetch made; a fetch that failed; a fetch that returned a list.
NotFetched == [called |-> FALSE, ok |-> FALSE, events |-> <<>>]
FetchFailed == [called |-> TRUE, ok |-> FALSE, events |-> <<>>]
FetchOk(events) == [called |-> TRUE, ok |-> TRUE, events |-> events]

\* What get_fixtures_events plus parse_events can give for a match.
FetchOutcomes(mid) ==
    {FetchFailed, FetchOk(<<>>), FetchOk(<<CardEvent(mid)>>),
     FetchOk(<<CardEvent(mid), CardEvent(mid)>>)}

\* ------------------------------------------------------------------- Init
InitHistory ==
    /\ outcome = "init"
    /\ result = <<>>
    /\ lastMatch = None
    /\ lastPrev = None
    /\ seenBefore = {}
    /\ returnedEver = {}
    /\ dupReturned = FALSE
    /\ scenStep = 0
    /\ scenOut = <<>>
    /\ droppedBefore = {}
    /\ clearedId = NoTeam
    /\ fetched = NotFetched

\* Endpoints the API client is called with.
Endpoints == {"fixtures", "teams"}

\* Keys of the breaker registry: the endpoints and the fallback key.
BreakerKeys == Endpoints \cup {"unknown"}

\* The arguments of a wrapper call that _extract_endpoint reads: the first
\* positional argument (a string, or something else such as self or a
\* number: NotStr) and the endpoint keyword (NoKw when absent).
NotStr == "<not a str>"
NoKw == "<no endpoint keyword>"
Calls == [first : Endpoints \cup {NotStr}, kw : Endpoints \cup {NoKw}]

\* f("fixtures"), as the tests call a decorated function.
PositionalCall(name) == [first |-> name, kw |-> NoKw]

_extract_endpoint(call) ==
    IF call.kw # NoKw THEN call.kw
    ELSE IF call.first # NotStr THEN call.first
    ELSE "unknown"

DefaultFailureThreshold == 5
DefaultRecoveryTimeout == 60
DefaultMaxRetries == 3
DefaultInitialDelay == 1
DefaultMaxDelay == 60
DefaultBackoffFactor == 2
\* Scheduler(check_interval=1) and the timeout of the join in stop().
DefaultCheckInterval == 1
JoinTimeout == 5
\* get_upcoming_matches(hours=24), the fallback of match_history_days, and
\* the hours of timedelta(days=1).
DefaultUpcomingHours == 24
DefaultHistoryDays == 7
HoursPerDay == 24

\* A retry(...) decoration: max_retries given, the other arguments default
\* or with a max_delay that the schedule reaches.
RetryArgs ==
    [max_retries : 0..MaxRetries, initial_delay : {DefaultInitialDelay},
     max_delay : {DefaultMaxDelay, SmallMaxDelay}, backoff_factor : {DefaultBackoffFactor},
     jitter : {TRUE}, circuit_breaker : BOOLEAN]

\* Decorations that vary the delay arguments, without a breaker.
BackoffArgs ==
    [max_retries : 0..MaxRetries,
     initial_delay : {DefaultInitialDelay, MidInitialDelay, LargeInitialDelay},
     max_delay : {DefaultMaxDelay, SmallMaxDelay}, backoff_factor : {1, DefaultBackoffFactor},
     jitter : BOOLEAN, circuit_breaker : {FALSE}]

\* One decoration with few retries, for calls on several endpoints.
EndpointArgs ==
    [max_retries : {1}, initial_delay : {DefaultInitialDelay},
     max_delay : {DefaultMaxDelay}, backoff_factor : {DefaultBackoffFactor},
     jitter : {TRUE}, circuit_breaker : {TRUE}]

\* History of a wrapper call before any call was made.
NoCall ==
    /\ pc = "idle"
    /\ endpoint = "none"
    /\ retries = 0
    /\ delay = 0
    /\ attempts = <<>>
    /\ sleeps = <<>>
    /\ callResult = "none"
    /\ raisedErr = "none"
    /\ startBreaker = None
    /\ startedAt = 0
    /\ openInvocation = "none"

\* ========================================================================
\* Scheduler of scheduler.py (classes Task and Scheduler): the caller's thread
\* calls start() and stop(), each started worker thread runs _run().
\* ========================================================================
\* Optional[datetime] and Optional[int] that are None.
NoTime == -1
NoInterval == -1

\* Task names in the order they were added (the iteration order of the dict).
TaskOrder == <<"poll", "digest">>
TaskNames == {"poll", "digest"}

Threads == 1..MaxThreads

\* self.next_run after _calculate_next_run() at time t.
_calculate_next_run(task, t) ==
    IF task.interval # NoInterval
    THEN IF task.last_run = NoTime THEN t ELSE task.last_run + task.interval
    ELSE LET future_times == {x \in task.run_at : x > t}
         IN  IF future_times # {}
             THEN CHOOSE x \in future_times : \A y \in future_times : x <= y
             ELSE NoTime

\* Task(name, callback, interval, run_at, run_once) constructed at time t.
Task(interval, run_at, run_once, t) ==
    LET fresh == [interval |-> interval, run_at |-> run_at, run_once |-> run_once,
                  last_run |-> NoTime, next_run |-> NoTime]
    IN  [fresh EXCEPT !.next_run = _calculate_next_run(fresh, t)]

should_run(task, t) == task.next_run # NoTime /\ t >= task.next_run

\* What a task callback does when called.
CallbackOutcomes == {"return", "raise"}

Mut_execute(task, callback_outcome, t) ==
    IF callback_outcome = "return"
    THEN [task |-> [task EXCEPT !.last_run = t,
                                !.next_run = _calculate_next_run([task EXCEPT !.last_run = t], t)],
          propagated |-> FALSE]
    ELSE [task |-> task, propagated |-> TRUE]

\* Task.execute() finishing at time t: the task afterwards, and whether the
\* callback's exception leaves execute.
execute(task, callback_outcome, t) ==
    IF callback_outcome = "return"
    THEN [task |-> [task EXCEPT !.last_run = t,
                                !.next_run = _calculate_next_run([task EXCEPT !.last_run = t], t)],
          propagated |-> FALSE]
    ELSE [task |-> [task EXCEPT !.last_run = t,
                                !.next_run = _calculate_next_run([task EXCEPT !.last_run = t], t)],
          propagated |-> FALSE]

\* Task tables a caller has registered with add_task at time 0, before start.
PollTasks ==
    {Task(interval, {}, FALSE, 0) : interval \in {SchedTick}}
DigestTasks ==
    {Task(NoInterval, {SchedTick}, TRUE, 0), Task(SchedTick, {}, TRUE, 0)}
TaskTables ==
    {[n \in {"poll"} |-> p] : p \in PollTasks}
      \cup {[n \in TaskNames |-> IF n = "poll" THEN p ELSE d] :
              p \in PollTasks, d \in DigestTasks}

\* The names of a table in dict order.
RECURSIVE Keys(_, _)
Keys(table, order) ==
    IF order = <<>> THEN <<>>
    ELSE IF Head(order) \in DOMAIN table
         THEN <<Head(order)>> \o Keys(table, Tail(order))
         ELSE Keys(table, Tail(order))

\* remove_task for every name in names.
remove_tasks(table, names) == [n \in DOMAIN table \ names |-> table[n]]

\* A thread that was never started, and the locals of _run and _check_tasks.
Unborn ==
    [pc |-> "unborn", todo |-> <<>>, size0 |-> 0, tasks_to_remove |-> {},
     cur |-> "", wake |-> 0, exit |-> "", asked |-> FALSE, lateTick |-> FALSE,
     seen |-> <<>>, raisedBefore |-> FALSE]

is_alive(w) == threads[w].pc \notin {"unborn", "dead"}

Born == {w \in Threads : threads[w].pc # "unborn"}

\* No Task.execute() has just finished.
NoExec == [name |-> ""]

\* What the caller can observe of the scheduler.
Snapshot ==
    [running |-> _running, thread |-> _thread, stop_event |-> _stop_event,
     tasks |-> tasks, born |-> Born]

\* No scheduler in use.
SchedulerUnused ==
    /\ tasks = [n \in {} |-> 0]
    /\ check_interval = DefaultCheckInterval
    /\ _running = FALSE
    /\ _thread = 0
    /\ _stop_event = FALSE
    /\ threads = [w \in Threads |-> Unborn]
    /\ clock = 0
    /\ mainPc = "idle"
    /\ joinStart = 0
    /\ schedOp = "init"
    /\ schedBefore = Snapshot
    /\ lastExec = NoExec
    /\ registered = 0

\* ========================================================================
\* Match tracker of match_tracker.py (class MatchTracker): one table of
\* matches, discovery per configured team, status updates and pruning.  The
\* API client and the parser are its environment: a fetch gives a list of
\* matches or raises.  Times are hours.
\* ========================================================================
TrackedIds == {"g1", "g2"}

\* MatchStatus members the tracker tells apart: upcoming, active, terminal,
\* and one (SUSPENDED) that none of its status lists names.
TrackerStatus == {"SCHEDULED", "IN_PLAY", "FINISHED", "SUSPENDED"}

\* A Match as the tracker reads it.
TrackedMatch == [id : TrackedIds, status : TrackerStatus, start_time : {0, LateStart}]

\* active_statuses and upcoming_statuses of the getters.
ActiveStatuses == {"IN_PLAY", "HALF_TIME", "PAUSED"}
UpcomingStatuses == {"SCHEDULED", "TIMED"}

\* get_active_matches(), as the set of ids of the matches returned.
get_active_matches(table) ==
    {id \in DOMAIN table : table[id].status \in ActiveStatuses}

\* get_upcoming_matches(hours) at time t.
get_upcoming_matches(table, t, hours) ==
    {id \in DOMAIN table :
        /\ table[id].status \in UpcomingStatuses
        /\ t <= table[id].start_time
        /\ table[id].start_time <= t + hours}

\* get_matches_by_status(status)
get_matches_by_status(table, status) ==
    {id \in DOMAIN table : table[id].status = status}

\* The configured teams: team_id of each entry, NoTeamId for an entry
\* without one.
NoTeamId == "<no team_id>"
TeamIds == {"A", "B"}
TeamConfigs == {<<>>, <<"A", "B">>, <<NoTeamId, "B">>}

\* What fetching and parsing the matches of a team gives: an exception, or a
\* list of matches.
FetchError == <<[raised |-> "Exception"]>>
TeamResponses(team_id) ==
    {FetchError, <<>>}
      \cup {<<m>> : m \in {x \in TrackedMatch :
                              /\ x.id = (IF team_id = "A" THEN "g1" ELSE "g2")
                              /\ x.status # "SUSPENDED"
                              /\ x.status # "SCHEDULED" => x.start_time = 0}}

\* self.matches[match.id] = match
Store(table, m) ==
    [id \in DOMAIN table \cup {m.id} |-> IF id = m.id THEN m ELSE table[id]]

\* The loop over the matches of one team: the table and discovered_matches.
RECURSIVE AddMatches(_, _, _)
AddMatches(found, table, discovered) ==
    IF found = <<>> THEN [matches |-> table, discovered |-> discovered]
    ELSE AddMatches(Tail(found), Store(table, Head(found)),
                    IF Head(found).id \in DOMAIN table THEN discovered
                    ELSE Append(discovered, Head(found)))

RECURSIVE Mut_DiscoverTeams(_, _, _, _)
Mut_DiscoverTeams(teams, responses, table, discovered) ==
    IF teams = <<>> THEN [matches |-> table, discovered |-> discovered]
    ELSE IF Head(teams) = NoTeamId
    THEN Mut_DiscoverTeams(Tail(teams), responses, table, discovered)
    ELSE IF responses[Head(teams)] = FetchError
    THEN [matches |-> table, discovered |-> discovered]
    ELSE LET added == AddMatches(responses[Head(teams)], table, discovered)
         IN  Mut_DiscoverTeams(Tail(teams), responses, added.matches, added.discovered)

\* The loop of discover_matches over the configured teams: an entry without
\* team_id is skipped, an exception is logged and the loop goes on.
RECURSIVE DiscoverTeams(_, _, _, _)
DiscoverTeams(teams, responses, table, discovered) ==
    IF teams = <<>> THEN [matches |-> table, discovered |-> discovered]
    ELSE IF Head(teams) = NoTeamId
    THEN DiscoverTeams(Tail(teams), responses, table, discovered)
    ELSE IF responses[Head(teams)] = FetchError
    THEN DiscoverTeams(Tail(teams), responses, table, discovered)
    ELSE LET added == AddMatches(responses[Head(teams)], table, discovered)
         IN  DiscoverTeams(Tail(teams), responses, added.matches, added.discovered)

\* The days argument or configuration value that is None.
NoDays == -1

\* days of clean_old_matches: the argument, else the configured
\* match_history_days, else 7.
HistoryDays(days, configured) ==
    IF days # NoDays THEN days
    ELSE IF configured = NoDays \/ configured = 0 THEN DefaultHistoryDays
    ELSE configured

Mut_old_matches(table, t, days) ==
    {id \in DOMAIN table : table[id].start_time < t - days * HoursPerDay}

\* old_matches of clean_old_matches at time t.
old_matches(table, t, days) ==
    {id \in DOMAIN table :
        /\ table[id].start_time < t - days * HoursPerDay
        /\ table[id].status \in TerminalSet}

\* No match tracker in use.
TrackerUnused ==
    /\ matches = [id \in {} |-> 0]
    /\ trackerNow = 0
    /\ trCall = [op |-> "init"]
    /\ trBefore = matches
    /\ trReturn = <<>>

\* No decorated function in use.
RetryUnused ==
    /\ SchedulerUnused
    /\ TrackerUnused
    /\ circuit_breakers = [e \in BreakerKeys |-> None]
    /\ cfg = [max_retries |-> DefaultMaxRetries, initial_delay |-> DefaultInitialDelay,
              max_delay |-> DefaultMaxDelay, backoff_factor |-> DefaultBackoffFactor,
              jitter |-> TRUE, circuit_breaker |-> TRUE]
    /\ NoCall

\* No circuit breaker in use.
BreakerUnused ==
    /\ RetryUnused
    /\ cb = None
    /\ now = 0
    /\ cbOp = "init"
    /\ cbBefore = None
    /\ allowed = FALSE
    /\ streak = 0
    /\ failedAt = 0

InitDetector ==
    /\ BreakerUnused
    /\ previous_states = [mid \in MatchIds |-> None]
    /\ detected_events = {}
    /\ statusRepr \in {"enum", "str"}
    /\ statesBefore = previous_states
    /\ InitHistory

Init == InitDetector /\ matchAttrs = DetectorAttrs

InitDataclass == InitDetector /\ matchAttrs = DataclassAttrs

\* ---------------------------------------------------------------- actions
\* History of the call: argument, stored snapshot and seen ids at entry.
Record(match) ==
    /\ lastMatch' = match
    /\ lastPrev' = previous_states[match.id]
    /\ seenBefore' = detected_events
    /\ statesBefore' = previous_states
    /\ droppedBefore' = IdsOf(seenBefore \ detected_events, {match.id})
    /\ clearedId' = IF outcome = "cleared" THEN clearedId ELSE NoTeam
    /\ UNCHANGED <<breakerVars, retryVars, schedulerVars, trackerVars>>

Returned(match, events) ==
    /\ outcome' = "returned"
    /\ result' = events
    /\ returnedEver' = returnedEver \cup {events[i].id : i \in 1..Len(events)}
    /\ dupReturned' = (dupReturned \/ \E i \in 1..Len(events) : events[i].id \in returnedEver)
    /\ IF scenStep \in 0..(Len(Scenario) - 1) /\ match = Scenario[scenStep + 1]
       THEN scenStep' = scenStep + 1 /\ scenOut' = Append(scenOut, events)
       ELSE scenStep' = -1 /\ scenOut' = <<>>

Raised ==
    /\ outcome' = "raised"
    /\ result' = <<>>
    /\ scenStep' = -1
    /\ scenOut' = <<>>
    /\ UNCHANGED <<returnedEver, dupReturned>>

detect_events(match) ==
    LET previous_match == previous_states[match.id]
        events == CandidateEvents(match, previous_match)
        filtered == _filter_duplicate_events(events, detected_events)
    IN  /\ Record(match)
        /\ fetched' = NotFetched
        /\ UNCHANGED <<statusRepr, matchAttrs>>
        /\ IF Len(_detect_goals(match, previous_match)) > 0 /\ "minute" \notin matchAttrs
           THEN \* _create_goal_event reads match.minute: AttributeError
                /\ Raised
                /\ UNCHANGED <<previous_states, detected_events>>
           ELSE IF "copy" \notin matchAttrs
           THEN \* match.copy() after the filter has recorded the ids: AttributeError
                /\ Raised
                /\ detected_events' = filtered.seen
                /\ UNCHANGED previous_states
           ELSE /\ Returned(match, filtered.unique)
                /\ detected_events' = filtered.seen
                /\ previous_states' = [previous_states EXCEPT ![match.id] = MatchCopy(match)]

Mut_reset ==
    /\ previous_states' = [mid \in DOMAIN previous_states |-> None]
    /\ detected_events' = detected_events
    /\ outcome' = "reset"
    /\ result' = <<>>
    /\ lastMatch' = None
    /\ lastPrev' = None
    /\ seenBefore' = detected_events
    /\ statesBefore' = previous_states
    /\ droppedBefore' = {}
    /\ clearedId' = NoTeam
    /\ fetched' = NotFetched
    /\ returnedEver' = {}
    /\ scenStep' = 0
    /\ scenOut' = <<>>
    /\ UNCHANGED <<statusRepr, matchAttrs, dupReturned>>
    /\ UNCHANGED <<breakerVars, retryVars, schedulerVars, trackerVars>>

reset ==
    /\ previous_states' = [mid \in DOMAIN previous_states |-> None]
    /\ detected_events' = {}
    /\ outcome' = "reset"
    /\ result' = <<>>
    /\ lastMatch' = None
    /\ lastPrev' = None
    /\ seenBefore' = detected_events
    /\ statesBefore' = previous_states
    /\ droppedBefore' = {}
    /\ clearedId' = NoTeam
    /\ fetched' = NotFetched
    /\ returnedEver' = {}
    /\ scenStep' = 0
    /\ scenOut' = <<>>
    /\ UNCHANGED <<statusRepr, matchAttrs, dupReturned>>
    /\ UNCHANGED <<breakerVars, retryVars, schedulerVars, trackerVars>>

Next ==
    \/ \E match \in Match : detect_events(match)
    \/ reset

Spec == Init /\ [][Next]_vars

SpecDataclass == InitDataclass /\ [][Next]_vars

\* ------------------------------------- the detector with its collaborators
\* EventDetector(api_client=...) of tests/test_event_detector.py: detect with
\* the events-list fetch, clear_match_state and clear_old_matches, following
\* the component description (clear, clear_finished, enrichment fetch).
InitRich ==
    /\ BreakerUnused
    /\ previous_states = [mid \in RichMatchIds |-> None]
    /\ detected_events = {}
    /\ statusRepr \in {"enum", "str"}
    /\ matchAttrs = DetectorAttrs
    /\ statesBefore = previous_states
    /\ InitHistory

\* History of a call that is not a detect call.
RecordClear(kind, match_id) ==
    /\ outcome' = kind
    /\ result' = <<>>
    /\ lastMatch' = None
    /\ lastPrev' = None
    /\ seenBefore' = detected_events
    /\ statesBefore' = previous_states
    /\ droppedBefore' = {}
    /\ clearedId' = match_id
    /\ fetched' = NotFetched
    /\ scenStep' = -1
    /\ scenOut' = <<>>
    /\ returnedEver' = detected_events'
    /\ UNCHANGED <<statusRepr, matchAttrs, dupReturned>>
    /\ UNCHANGED <<breakerVars, retryVars, schedulerVars, trackerVars>>

\* clear(match_id): drops the last-seen state and the seen ids of match_id.
clear_match_state(match_id) ==
    /\ previous_states' = [previous_states EXCEPT ![match_id] = None]
    /\ detected_events' = detected_events \ IdsOf(detected_events, {match_id})
    /\ RecordClear("cleared", match_id)

\* Match ids whose last-seen status is in the given set.
WithStatusIn(states, statuses) ==
    {mid \in DOMAIN states : states[mid] # None /\ states[mid].status \in statuses}

Mut_clear_old_matches ==
    LET old == WithStatusIn(previous_states, {"FINISHED"})
    IN  /\ previous_states' = [mid \in DOMAIN previous_states |->
                                  IF mid \in old THEN None ELSE previous_states[mid]]
        /\ detected_events' = detected_events \ IdsOf(detected_events, old)
        /\ RecordClear("cleared_old", NoTeam)

\* clear_finished: clear of every match whose last-seen status is terminal.
clear_old_matches ==
    LET old == WithStatusIn(previous_states, TerminalSet)
    IN  /\ previous_states' = [mid \in DOMAIN previous_states |->
                                  IF mid \in old THEN None ELSE previous_states[mid]]
        /\ detected_events' = detected_events \ IdsOf(detected_events, old)
        /\ RecordClear("cleared_old", NoTeam)

\* detect with the enrichment fetch: when the score diff gives goals, the
\* events-list of the match is fetched (fetch is what that gave) and its
\* events join the list before the seen-id filter; a failed fetch adds none.
detect_events_enriched(match, fetch) ==
    LET previous_match == previous_states[match.id]
        score_changed == Len(_detect_goals(match, previous_match)) > 0
        extra == IF score_changed /\ fetch.ok THEN fetch.events ELSE <<>>
        events == CandidateEvents(match, previous_match) \o extra
        filtered == _filter_duplicate_events(events, detected_events)
    IN  /\ Record(match)
        /\ fetched' = IF score_changed THEN fetch ELSE NotFetched
        /\ UNCHANGED <<statusRepr, matchAttrs>>
        /\ Returned(match, filtered.unique)
        /\ detected_events' = filtered.seen
        /\ previous_states' = [previous_states EXCEPT ![match.id] = MatchCopy(match)]

NextRich ==
    \/ \E match \in RichMatch : \E fetch \in FetchOutcomes(match.id) :
          detect_events_enriched(match, fetch)
    \/ \E match_id \in RichMatchIds : clear_match_state(match_id)
    \/ clear_old_matches
    \/ reset

SpecRich == InitRich /\ [][NextRich]_vars

\* ------------------------------------------------- vocabulary of the claims
Called == outcome = "returned"

HasType(events, type) == \E i \in 1..Len(events) : events[i].type = type

IsGoalOf(event, team) == event.type = "GOAL" /\ event.team_id = team

\* Ordinals of the goal events of one team, in list order.
GoalOrdinals(events, team) ==
    LET goals == SelectSeq(events, LAMBDA e : IsGoalOf(e, team))
    IN  [i \in 1..Len(goals) |-> goals[i].id.n]

Increasing(ordinals) ==
    \A i \in 1..Len(ordinals) : \A j \in 1..Len(ordinals) : i < j => ordinals[i] < ordinals[j]

Range(seq) == {seq[i] : i \in 1..Len(seq)}

DistinctIds(events) ==
    \A i \in 1..Len(events) : \A j \in 1..Len(events) : i # j => events[i].id # events[j].id

StartId(mid) == EventId(mid, "start", NoTeam, 0)
EndId(mid) == EventId(mid, "end", NoTeam, 0)
GoalId(mid, team, n) == EventId(mid, "goal", team, n)

\* What a returned event is, for comparing lists: type, team and ordinal.
Descr(event) == <<event.type, event.team_id, event.id.n>>
DescrList(events) == [i \in 1..Len(events) |-> Descr(events[i])]

C3_StartRule ==
    \/ lastPrev = None
    \/ (lastPrev.status \notin LiveSet /\ lastMatch.status = "IN_PLAY")

C8_ClaimedRank(event) ==
    CASE event.type = "MATCH_START" -> 0
      [] event.type = "HALF_TIME"   -> 1
      [] event.type = "MATCH_END"   -> 2
      [] IsGoalOf(event, "H")       -> 3
      [] OTHER                      -> 4

\* Position of an event in the order of the code: start, home goals, away
\* goals, half-time, end.
C8_CodeRank(event) ==
    CASE event.type = "MATCH_START" -> 0
      [] IsGoalOf(event, "H")       -> 1
      [] event.type = "GOAL"        -> 2
      [] event.type = "HALF_TIME"   -> 3
      [] OTHER                      -> 4

C10_NeverRaises == outcome # "raised"

\* ========================================================================
\* Circuit breaker of retry.py (class CircuitBreaker).
\* ========================================================================
CircuitBreaker(failure_threshold, recovery_timeout) ==
    [failure_threshold |-> failure_threshold, recovery_timeout |-> recovery_timeout,
     failure_count |-> 0, last_failure_time |-> 0, state |-> "CLOSED"]

Mut_record_success(self) == [self EXCEPT !.failure_count = 0]

record_success(self) == [self EXCEPT !.failure_count = 0, !.state = "CLOSED"]

Mut_record_failure(self, time) ==
    [self EXCEPT !.failure_count = @ + 1,
                 !.last_failure_time = time,
                 !.state = IF self.failure_count + 1 > self.failure_threshold
                           THEN "OPEN" ELSE @]

MutEq_record_failure(self, time) ==
    [self EXCEPT !.failure_count = @ + 1,
                 !.last_failure_time = time,
                 !.state = IF self.failure_count + 1 = self.failure_threshold
                           THEN "OPEN" ELSE @]

record_failure(self, time) ==
    [self EXCEPT !.failure_count = @ + 1,
                 !.last_failure_time = time,
                 !.state = IF self.failure_count + 1 >= self.failure_threshold
                           THEN "OPEN" ELSE @]

Mut_allow_request(self, time) ==
    IF self.state = "CLOSED"
    THEN [allowed |-> TRUE, self |-> self]
    ELSE IF self.state = "OPEN"
    THEN IF time - self.last_failure_time >= self.recovery_timeout
         THEN [allowed |-> TRUE, self |-> [self EXCEPT !.state = "HALF-OPEN"]]
         ELSE [allowed |-> FALSE, self |-> self]
    ELSE [allowed |-> TRUE, self |-> self]

MutTouch_allow_request(self, time) ==
    IF self.state = "CLOSED"
    THEN [allowed |-> TRUE, self |-> self]
    ELSE IF self.state = "OPEN"
    THEN IF time - self.last_failure_time > self.recovery_timeout
         THEN [allowed |-> TRUE, self |-> [self EXCEPT !.state = "HALF-OPEN"]]
         ELSE [allowed |-> FALSE, self |-> [self EXCEPT !.last_failure_time = time]]
    ELSE [allowed |-> TRUE, self |-> self]

\* The returned flag and the breaker as the call leaves it.
allow_request(self, time) ==
    IF self.state = "CLOSED"
    THEN [allowed |-> TRUE, self |-> self]
    ELSE IF self.state = "OPEN"
    THEN IF time - self.last_failure_time > self.recovery_timeout
         THEN [allowed |-> TRUE, self |-> [self EXCEPT !.state = "HALF-OPEN"]]
         ELSE [allowed |-> FALSE, self |-> self]
    ELSE [allowed |-> TRUE, self |-> self]

\* Detector left as constructed while the breaker is exercised.
DetectorUnused ==
    /\ previous_states = [mid \in MatchIds |-> None]
    /\ detected_events = {}
    /\ statusRepr = "enum"
    /\ matchAttrs = DataclassAttrs
    /\ statesBefore = previous_states
    /\ InitHistory

InitBreaker ==
    /\ DetectorUnused
    /\ RetryUnused
    /\ \E failure_threshold \in 1..MaxThreshold : \E recovery_timeout \in 0..MaxTimeout :
          cb = CircuitBreaker(failure_threshold, recovery_timeout)
    /\ now = 0
    /\ cbOp = "init"
    /\ cbBefore = cb
    /\ allowed = FALSE
    /\ streak = 0
    /\ failedAt = 0

CbRecordSuccess ==
    /\ cb' = record_success(cb)
    /\ cbOp' = "record_success"
    /\ cbBefore' = cb
    /\ streak' = 0
    /\ UNCHANGED <<now, allowed, failedAt>>
    /\ UNCHANGED <<detectorVars, retryVars, schedulerVars, trackerVars>>

CbRecordFailure ==
    /\ cb.failure_count < MaxFailures
    /\ cb' = record_failure(cb, now)
    /\ cbOp' = "record_failure"
    /\ cbBefore' = cb
    /\ streak' = streak + 1
    /\ failedAt' = now
    /\ UNCHANGED <<now, allowed>>
    /\ UNCHANGED <<detectorVars, retryVars, schedulerVars, trackerVars>>

CbAllowRequest ==
    /\ cb' = allow_request(cb, now).self
    /\ allowed' = allow_request(cb, now).allowed
    /\ cbOp' = "allow_request"
    /\ cbBefore' = cb
    /\ UNCHANGED <<now, streak, failedAt>>
    /\ UNCHANGED <<detectorVars, retryVars, schedulerVars, trackerVars>>

\* The clock advances between two calls.
Tick(seconds) ==
    /\ now' = now + seconds
    /\ cbOp' = "tick"
    /\ UNCHANGED <<cb, cbBefore, allowed, streak, failedAt>>
    /\ UNCHANGED <<detectorVars, retryVars, schedulerVars, trackerVars>>

NextBreaker ==
    \/ CbRecordSuccess
    \/ CbRecordFailure
    \/ CbAllowRequest
    \/ now < MaxTime /\ Tick(1)

SpecBreaker == InitBreaker /\ [][NextBreaker]_vars

\* ========================================================================
\* Retry decorator of retry.py (retry, wrapper, get_circuit_breaker).
\* ========================================================================
\* What one invocation of the wrapped function does: returns ("ok") or raises
\* an exception of one of these classes (HTTPError with its status code).
\* "APIClientError404" is the APIClientError that _make_request raises from an
\* HTTPError with status 404; "HTTPErrorNoResponse" is a requests.HTTPError
\* constructed without a response (e.response is None).
Outcomes == {"ok", "RateLimitError", "AuthenticationError", "APIClientError",
             "APIClientError404", "HTTPError404", "HTTPError429",
             "HTTPErrorNoResponse", "ValueError"}

\* The classes an exception is an instance of (api_client.py, requests).
Bases(kind) ==
    CASE kind = "RateLimitError"      -> {"RateLimitError", "APIClientError", "Exception"}
      [] kind = "AuthenticationError" -> {"AuthenticationError", "APIClientError", "Exception"}
      [] kind = "APIClientError"      -> {"APIClientError", "Exception"}
      [] kind = "APIClientError404"   -> {"APIClientError", "Exception"}
      [] kind \in {"HTTPError404", "HTTPError429", "HTTPErrorNoResponse"}
                                      -> {"HTTPError", "RequestException", "Exception"}
      [] OTHER                        -> {kind, "Exception"}

\* e.response is not None
has_response(kind) == kind \in {"HTTPError404", "HTTPError429"}

\* e.response.status_code
status_code(kind) ==
    CASE kind = "HTTPError404" -> 404
      [] kind = "HTTPError429" -> 429
      [] OTHER                 -> 0

\* retry_on_exceptions when the decorator is given none.
retry_on_exceptions == {"RequestException", "APIClientError"}

Mut_ExceptClause(kind) ==
    IF "Exception" \in Bases(kind) /\ "HTTPError" \notin Bases(kind) THEN "retry"
    ELSE "client"

\* The except clause of the wrapper that handles the exception and whether it
\* re-raises at once: "rate", "retry", "client" (4xx, re-raised), "other"
\* (re-raised); "crash" when reading e.response.status_code raises
\* AttributeError inside the clause.
ExceptClause(kind) ==
    IF "RateLimitError" \in Bases(kind) THEN "rate"
    ELSE IF (Bases(kind) \cap retry_on_exceptions) # {}
    THEN IF "HTTPError" \in Bases(kind)
         THEN IF ~has_response(kind) THEN "crash"
              ELSE IF status_code(kind) >= 400 /\ status_code(kind) < 500
                        /\ status_code(kind) # 429
              THEN "client" ELSE "retry"
         ELSE "retry"
    ELSE "other"

Mut_Exhausted(n, max_retries) == n > max_retries

\* if retries >= max_retries: raise
Exhausted(n, max_retries) == n >= max_retries

Min(a, b) == IF a <= b THEN a ELSE b

Mut_get_circuit_breaker(name) ==
    CircuitBreaker(DefaultFailureThreshold, DefaultRecoveryTimeout)

\* get_circuit_breaker(endpoint): the registered breaker, created on first use.
get_circuit_breaker(name) ==
    IF circuit_breakers[name] = None
    THEN CircuitBreaker(DefaultFailureThreshold, DefaultRecoveryTimeout)
    ELSE circuit_breakers[name]

InitRetry ==
    /\ DetectorUnused
    /\ cb = None
    /\ now = 0
    /\ cbOp = "init"
    /\ cbBefore = None
    /\ allowed = FALSE
    /\ streak = 0
    /\ failedAt = 0
    /\ SchedulerUnused
    /\ TrackerUnused
    /\ circuit_breakers = [e \in BreakerKeys |-> None]
    /\ cfg \in RetryArgs
    /\ NoCall

\* wrapper, up to the loop: the breaker is fetched and asked once.
WrapperCall(call) ==
    LET name == _extract_endpoint(call)
        before == circuit_breakers[name]
        asked == allow_request(get_circuit_breaker(name), now)
    IN  /\ pc = "idle"
        /\ endpoint' = name
        /\ startBreaker' = before
        /\ startedAt' = now
        /\ attempts' = <<>>
        /\ sleeps' = <<>>
        /\ openInvocation' = "none"
        /\ retries' = 0
        /\ delay' = cfg.initial_delay
        /\ IF cfg.circuit_breaker
           THEN /\ circuit_breakers' = [circuit_breakers EXCEPT ![name] = asked.self]
                /\ IF asked.allowed
                   THEN pc' = "running" /\ callResult' = "none" /\ raisedErr' = "none"
                   ELSE /\ pc' = "idle"
                        /\ callResult' = "raised"
                        /\ raisedErr' = "CircuitBreakerError"
           ELSE /\ pc' = "running" /\ callResult' = "none" /\ raisedErr' = "none"
                /\ UNCHANGED circuit_breakers
        /\ UNCHANGED <<cfg, detectorVars, breakerVars, schedulerVars, trackerVars>>

\* cb.record_success() / cb.record_failure() when the decorator uses a breaker.
Recorded(ok) ==
    IF cfg.circuit_breaker
    THEN circuit_breakers' =
           [circuit_breakers EXCEPT ![endpoint] =
              IF ok THEN record_success(@) ELSE record_failure(@, now)]
    ELSE UNCHANGED circuit_breakers

Return ==
    pc' = "idle" /\ callResult' = "returned" /\ raisedErr' = "none"
      /\ UNCHANGED <<retries, delay, sleeps>>

Raise(kind) ==
    pc' = "idle" /\ callResult' = "raised" /\ raisedErr' = kind
      /\ UNCHANGED <<retries, delay, sleeps>>

Mut_CurrentDelay(clause) ==
    IF clause = "rate" THEN delay * 2 ELSE Min(cfg.max_delay, delay)

\* current_delay before jitter: min(max_delay, delay * 2) after a
\* RateLimitError, min(max_delay, delay) after another retryable error.
CurrentDelay(clause) ==
    IF clause = "rate" THEN Min(cfg.max_delay, delay * 2) ELSE Min(cfg.max_delay, delay)

Mut_IncreasedDelay(base) == base * cfg.backoff_factor

\* delay = min(max_delay, delay * backoff_factor)
IncreasedDelay(base) == Min(cfg.max_delay, base * cfg.backoff_factor)

\* The argument of time.sleep: current_delay, or with jitter current_delay
\* times a factor in [0.5, 1.5); base is the value of delay, pre the delay
\* before jitter, min2 and sup2 are twice the least value and twice the least
\* upper bound of the argument.
Slept(current_delay) ==
    IF cfg.jitter
    THEN [base |-> delay, pre |-> current_delay,
          min2 |-> current_delay, sup2 |-> 3 * current_delay]
    ELSE [base |-> delay, pre |-> current_delay,
          min2 |-> 2 * current_delay, sup2 |-> 2 * current_delay]

\* time.sleep(current_delay), then the delay and retry counter updates; the
\* time the sleep takes shows as clock ticks before the next step.
SleepAndRetry(current_delay) ==
    /\ sleeps' = Append(sleeps, Slept(current_delay))
    /\ delay' = IncreasedDelay(delay)
    /\ retries' = retries + 1
    /\ UNCHANGED <<pc, callResult, raisedErr>>

\* One pass of the wrapper's loop: func is invoked and does what func_result says (returns or raises).
Attempt(func_result) ==
    LET breaker == circuit_breakers[endpoint]
        clause == ExceptClause(func_result)
    IN  /\ pc = "running"
        /\ (func_result # "ok" /\ cfg.circuit_breaker) =>
              breaker.failure_count < MaxEndpointFailures
        /\ attempts' = Append(attempts, func_result)
        /\ openInvocation' =
              IF breaker # None /\ breaker.state = "OPEN"
                   /\ now - breaker.last_failure_time < breaker.recovery_timeout
              THEN (IF attempts = <<>> THEN "first" ELSE "retry")
              ELSE openInvocation
        /\ IF func_result # "ok" /\ clause = "crash"
           THEN UNCHANGED circuit_breakers
           ELSE Recorded(func_result = "ok")
        /\ IF func_result = "ok" THEN Return
           ELSE IF clause = "crash" THEN Raise("AttributeError")
           ELSE IF clause \in {"client", "other"} THEN Raise(func_result)
           ELSE IF Exhausted(retries, cfg.max_retries) THEN Raise(func_result)
           ELSE SleepAndRetry(CurrentDelay(clause))
        /\ UNCHANGED <<cfg, endpoint, startBreaker, startedAt, detectorVars, breakerVars, schedulerVars, trackerVars>>

\* The clock advances while the wrapper is idle, sleeping or inside func.
RetryTick ==
    /\ now + TickSeconds <= MaxRetryTime
    /\ now' = now + TickSeconds
    /\ UNCHANGED <<cb, cbOp, cbBefore, allowed, streak, failedAt>>
    /\ UNCHANGED <<detectorVars, retryVars, schedulerVars, trackerVars>>

NextRetry ==
    \/ \E call \in {PositionalCall("fixtures")} : WrapperCall(call)
    \/ \E func_result \in Outcomes : Attempt(func_result)
    \/ RetryTick

SpecRetry == InitRetry /\ [][NextRetry]_vars

\* The same wrapper under decorations that vary the delay arguments.
InitBackoff ==
    /\ DetectorUnused
    /\ cb = None
    /\ now = 0
    /\ cbOp = "init"
    /\ cbBefore = None
    /\ allowed = FALSE
    /\ streak = 0
    /\ failedAt = 0
    /\ SchedulerUnused
    /\ TrackerUnused
    /\ circuit_breakers = [e \in BreakerKeys |-> None]
    /\ cfg \in BackoffArgs
    /\ NoCall

SpecBackoff == InitBackoff /\ [][NextRetry]_vars

\* Calls of every shape on two endpoints, under one decoration; the clock
\* stands still.
InitEndpoints ==
    /\ DetectorUnused
    /\ cb = None
    /\ now = 0
    /\ cbOp = "init"
    /\ cbBefore = None
    /\ allowed = FALSE
    /\ streak = 0
    /\ failedAt = 0
    /\ SchedulerUnused
    /\ TrackerUnused
    /\ circuit_breakers = [e \in BreakerKeys |-> None]
    /\ cfg \in EndpointArgs
    /\ NoCall

NextEndpoints ==
    \/ \E call \in Calls : WrapperCall(call)
    \/ \E func_result \in {"ok", "APIClientError"} : Attempt(func_result)

SpecEndpoints == InitEndpoints /\ [][NextEndpoints]_vars

\* --------------------------------------------------------------------- C11
\* The events of a returned list that the diff of two snapshots derives.
DiffTypes == {"MATCH_START", "GOAL", "HALF_TIME", "MATCH_END"}
DiffEvents(events) == SelectSeq(events, LAMBDA e : e.type \in DiffTypes)

\* What a detector that never saw the match derives from a snapshot.
FirstSightingList(match) ==
    <<Descr(_create_match_start_event(match))>>
      \o [i \in 1..match.home |-> <<"GOAL", HomeTeamId(match.id), i>>]
      \o [i \in 1..match.away |-> <<"GOAL", AwayTeamId(match.id), i>>]

ScoreRose(match, previous) ==
    IF previous = None
    THEN match.home + match.away > 0
    ELSE match.home > previous.home \/ match.away > previous.away

C15_Trip ==
    /\ streak < cb.failure_threshold => cb.state = "CLOSED"
    /\ streak >= cb.failure_threshold => cb.state # "CLOSED"
    /\ (cbOp = "record_failure" /\ streak = cb.failure_threshold) => cb.state = "OPEN"
    /\ (cbOp = "allow_request" /\ streak < cb.failure_threshold) => allowed
    /\ (cbOp = "allow_request" /\ cbBefore.state = "OPEN"
          /\ now - failedAt < cb.recovery_timeout) => ~allowed /\ cb.state = "OPEN"

C15_Witness ==
    /\ cb.failure_threshold = MaxThreshold
    /\ streak = cb.failure_threshold
    /\ cbOp = "allow_request"
    /\ cbBefore.state = "OPEN"
    /\ now - failedAt < cb.recovery_timeout
    /\ ~allowed

\* --------------------------------------------------------------------- C16
\* C16 as stated: on an OPEN breaker allow_request returns False while less
\* than recovery_timeout seconds have passed since the last recorded failure,
\* and returns True and sets HALF-OPEN once recovery_timeout seconds have
\* passed.
C16_Original ==
    (cbOp = "allow_request" /\ cbBefore.state = "OPEN") =>
      IF now - failedAt < cb.recovery_timeout
      THEN ~allowed /\ cb.state = "OPEN"
      ELSE allowed /\ cb.state = "HALF-OPEN"

\* C16: on an OPEN breaker allow_request returns False and leaves it OPEN
\* while at most recovery_timeout seconds have passed since the last recorded
\* failure; once more than recovery_timeout seconds have passed it returns
\* True and sets HALF-OPEN.
C16_Recovery ==
    (cbOp = "allow_request" /\ cbBefore.state = "OPEN") =>
      IF now - failedAt <= cb.recovery_timeout
      THEN ~allowed /\ cb.state = "OPEN"
      ELSE allowed /\ cb.state = "HALF-OPEN"

C16_Witness ==
    /\ cbOp = "allow_request"
    /\ cbBefore.state = "OPEN"
    /\ cb.recovery_timeout = 1
    /\ now - failedAt = 2
    /\ allowed
    /\ cb.state = "HALF-OPEN"

\* --------------------------------------------------------------------- C17
\* C17: on a HALF-OPEN breaker allow_request returns True and changes
\* nothing, record_success sets CLOSED with failure_count 0, and one
\* record_failure sets OPEN with last_failure_time the time of that call.
C17_HalfOpen ==
    cbBefore.state = "HALF-OPEN" =>
      /\ cbOp = "allow_request" => allowed /\ cb = cbBefore
      /\ cbOp = "record_success" => cb.state = "CLOSED" /\ cb.failure_count = 0
      /\ cbOp = "record_failure" => cb.state = "OPEN" /\ cb.last_failure_time = failedAt

C17_Witness ==
    /\ cbBefore.state = "HALF-OPEN"
    /\ cbOp = "record_failure"
    /\ cb.state = "OPEN"
    /\ cb.last_failure_time > cbBefore.last_failure_time

\* --------------------------------------------------------------------- C18
\* The wrapper raised CircuitBreakerError without invoking func.
Rejected ==
    /\ pc = "idle"
    /\ callResult = "raised"
    /\ raisedErr = "CircuitBreakerError"
    /\ attempts = <<>>

\* C18 as stated: func is never invoked while the endpoint's breaker is OPEN
\* with the recovery timeout not elapsed, neither as the first attempt of a
\* call nor as a retry of a running call, and a call that begins in that
\* state raises CircuitBreakerError with zero invocations.
C18_Original ==
    /\ openInvocation = "none"
    /\ raisedErr = "CircuitBreakerError" => attempts = <<>>
    /\ (cfg.circuit_breaker /\ startBreaker # None /\ startBreaker.state = "OPEN"
          /\ startedAt - startBreaker.last_failure_time < startBreaker.recovery_timeout)
         => Rejected

\* C18: a call that begins while the endpoint's breaker is OPEN and at most
\* recovery_timeout seconds have passed since its last failure raises
\* CircuitBreakerError with zero invocations of func; the first invocation of
\* a call is never made on such a breaker (the retries of a running call are
\* not covered: the breaker is asked only when the call begins).
C18_FailFast ==
    /\ openInvocation # "first"
    /\ raisedErr = "CircuitBreakerError" => attempts = <<>>
    /\ (cfg.circuit_breaker /\ startBreaker # None /\ startBreaker.state = "OPEN"
          /\ startedAt - startBreaker.last_failure_time <= startBreaker.recovery_timeout)
         => Rejected

C18_Witness ==
    /\ Rejected
    /\ startBreaker # None
    /\ startBreaker.state = "OPEN"
    /\ startedAt - startBreaker.last_failure_time = TickSeconds
    /\ circuit_breakers[endpoint] = startBreaker

\* --------------------------------------------------------------------- C19
\* Failures that every reading of the retry policy treats as retryable.
RetryableKinds == {"RateLimitError", "APIClientError"}

C20_AuthNotRetried ==
    (attempts # <<>> /\ attempts[1] = "AuthenticationError") =>
      /\ pc = "idle"
      /\ callResult = "raised"
      /\ raisedErr = "AuthenticationError"
      /\ Len(attempts) = 1

InitScheduler ==
    /\ DetectorUnused
    /\ cb = None
    /\ now = 0
    /\ cbOp = "init"
    /\ cbBefore = None
    /\ allowed = FALSE
    /\ streak = 0
    /\ failedAt = 0
    /\ circuit_breakers = [e \in BreakerKeys |-> None]
    /\ cfg = [max_retries |-> DefaultMaxRetries, initial_delay |-> DefaultInitialDelay,
              max_delay |-> DefaultMaxDelay, backoff_factor |-> DefaultBackoffFactor,
              jitter |-> TRUE, circuit_breaker |-> TRUE]
    /\ NoCall
    /\ TrackerUnused
    /\ tasks \in TaskTables
    /\ check_interval = SchedTick
    /\ _running = FALSE
    /\ _thread = 0
    /\ _stop_event = FALSE
    /\ threads = [w \in Threads |-> Unborn]
    /\ clock = 0
    /\ mainPc = "idle"
    /\ joinStart = 0
    /\ schedOp = "init"
    /\ schedBefore = Snapshot
    /\ lastExec = NoExec
    /\ registered = 0

OtherUnchanged == UNCHANGED <<detectorVars, breakerVars, retryVars, trackerVars>>

Mut_start ==
    /\ mainPc = "idle"
    /\ Born # Threads
    /\ schedOp' = "start"
    /\ schedBefore' = Snapshot
    /\ LET w == CHOOSE x \in Threads \ Born : \A y \in Threads \ Born : x <= y
       IN  /\ _running' = TRUE
           /\ _stop_event' = FALSE
           /\ _thread' = w
           /\ threads' = [threads EXCEPT ![w] = [Unborn EXCEPT !.pc = "check"]]
    /\ lastExec' = NoExec
    /\ UNCHANGED <<tasks, check_interval, registered, clock, mainPc, joinStart>>
    /\ OtherUnchanged

\* Scheduler.start(): nothing on a running scheduler, else a new worker thread.
start ==
    /\ mainPc = "idle"
    /\ schedOp' = "start"
    /\ schedBefore' = Snapshot
    /\ IF _running
       THEN UNCHANGED <<_running, _stop_event, _thread, threads>>
       ELSE /\ Born # Threads
            /\ LET w == CHOOSE x \in Threads \ Born : \A y \in Threads \ Born : x <= y
               IN  /\ _running' = TRUE
                   /\ _stop_event' = FALSE
                   /\ _thread' = w
                   /\ threads' = [threads EXCEPT ![w] = [Unborn EXCEPT !.pc = "check"]]
    /\ lastExec' = NoExec
    /\ UNCHANGED <<tasks, check_interval, registered, clock, mainPc, joinStart>>
    /\ OtherUnchanged

\* Scheduler.stop() up to the join: nothing on a scheduler that is not
\* running, else the stop event is set and the caller waits for the thread.
stop ==
    /\ mainPc = "idle"
    /\ schedBefore' = Snapshot
    /\ IF ~_running
       THEN /\ schedOp' = "stop"
            /\ UNCHANGED <<_stop_event, threads, mainPc, joinStart>>
       ELSE /\ schedOp' = "stopping"
            /\ _stop_event' = TRUE
            /\ threads' = [w \in Threads |->
                             IF is_alive(w) THEN [threads[w] EXCEPT !.asked = TRUE]
                             ELSE threads[w]]
            /\ mainPc' = "joining"
            /\ joinStart' = clock
    /\ lastExec' = NoExec
    /\ UNCHANGED <<tasks, check_interval, registered, _running, _thread, clock>>
    /\ OtherUnchanged

\* join(timeout=5.0) has returned: the thread ended or the timeout passed.
JoinReturned ==
    mainPc = "joining" /\ (~is_alive(_thread) \/ clock >= joinStart + JoinTimeout)

\* Scheduler.stop() after the join.
stop_joined ==
    /\ JoinReturned
    /\ _running' = FALSE
    /\ mainPc' = "idle"
    /\ schedOp' = "stop"
    /\ schedBefore' = Snapshot
    /\ lastExec' = NoExec
    /\ UNCHANGED <<tasks, check_interval, registered, _thread, _stop_event, threads, clock,
                   joinStart>>
    /\ OtherUnchanged

\* What a step of a worker thread leaves alone; the history of the caller's
\* last call ends with it.
ThreadStep ==
    /\ schedOp' = "thread"
    /\ UNCHANGED <<check_interval, registered, _running, _thread, _stop_event, clock, mainPc,
                   joinStart>>
    /\ schedBefore' = Snapshot'
    /\ OtherUnchanged

\* _run: the test of the loop; the thread ends when the stop event is set,
\* else _check_tasks begins to iterate over the task table.
_run(w) ==
    /\ threads[w].pc = "check"
    /\ threads' =
         [threads EXCEPT ![w] =
            IF _stop_event
            THEN [@ EXCEPT !.pc = "dead", !.exit = "stop"]
            ELSE [@ EXCEPT !.pc = "iter",
                           !.todo = Keys(tasks, TaskOrder),
                           !.size0 = Cardinality(DOMAIN tasks),
                           !.tasks_to_remove = {},
                           !.seen = <<>>,
                           !.lateTick = @ \/ threads[w].asked,
                           !.raisedBefore =
                              @ \/ \E i \in 1..Len(threads[w].seen) :
                                     threads[w].seen[i].outcome = "raise"]]
    /\ lastExec' = NoExec
    /\ UNCHANGED tasks
    /\ ThreadStep

\* _check_tasks: one step of `for name, task in self.tasks.items()`, and after
\* the loop the removal of the executed run_once tasks and the wait of _run.
\* The dict iterator raises RuntimeError when the table changed size.
_check_tasks(w) ==
    LET self == threads[w]
    IN  /\ self.pc = "iter"
        /\ IF Cardinality(DOMAIN tasks) # self.size0
           THEN /\ threads' = [threads EXCEPT ![w] =
                                 [@ EXCEPT !.pc = "dead", !.exit = "RuntimeError"]]
                /\ UNCHANGED tasks
           ELSE IF self.todo = <<>>
           THEN /\ tasks' = remove_tasks(tasks, self.tasks_to_remove)
                /\ threads' = [threads EXCEPT ![w] =
                                 [@ EXCEPT !.pc = "wait",
                                           !.wake = clock + check_interval]]
           ELSE /\ UNCHANGED tasks
                /\ IF should_run(tasks[Head(self.todo)], clock)
                   THEN threads' = [threads EXCEPT ![w] =
                                      [@ EXCEPT !.pc = "callback",
                                                !.cur = Head(self.todo)]]
                   ELSE threads' = [threads EXCEPT ![w] =
                                      [@ EXCEPT !.todo = Tail(@),
                                                !.seen = Append(@, [name |-> Head(self.todo),
                                                                    outcome |-> "not due"])]]
        /\ lastExec' = NoExec
        /\ ThreadStep

\* The callback of the task being executed returns or raises, and
\* Task.execute and the loop body finish. The task object may have been
\* removed from the table by another thread meanwhile.
callback(w, callback_outcome) ==
    LET self == threads[w]
        name == self.cur
        stored == name \in DOMAIN tasks
        executed == execute(tasks[name], callback_outcome, clock)
    IN  /\ self.pc = "callback"
        /\ IF stored
           THEN /\ lastExec' = [name |-> name, outcome |-> callback_outcome, at |-> clock,
                                 before |-> tasks[name], after |-> executed.task]
                /\ tasks' = IF executed.propagated THEN tasks
                            ELSE [tasks EXCEPT ![name] = executed.task]
                /\ threads' =
                     [threads EXCEPT ![w] =
                        IF executed.propagated
                        THEN [@ EXCEPT !.pc = "dead", !.exit = "callback exception"]
                        ELSE [@ EXCEPT !.pc = "iter",
                                       !.todo = Tail(@),
                                       !.seen = Append(@, [name |-> name,
                                                           outcome |-> callback_outcome]),
                                       !.tasks_to_remove =
                                          IF tasks[name].run_once THEN @ \cup {name} ELSE @]]
           ELSE /\ lastExec' = NoExec
                /\ UNCHANGED tasks
                /\ threads' =
                     [threads EXCEPT ![w] =
                        [@ EXCEPT !.pc = "iter",
                                  !.todo = Tail(@),
                                  !.seen = Append(@, [name |-> name,
                                                      outcome |-> callback_outcome]),
                                  !.tasks_to_remove = @ \cup {name}]]
        /\ ThreadStep

\* self._stop_event.wait(self.check_interval) returns.
wait_returned(w) ==
    /\ threads[w].pc = "wait"
    /\ _stop_event \/ clock >= threads[w].wake
    /\ threads' = [threads EXCEPT ![w] = [@ EXCEPT !.pc = "check"]]
    /\ lastExec' = NoExec
    /\ UNCHANGED tasks
    /\ ThreadStep

\* A thread that can take a step without time passing.
Ready(w) ==
    \/ threads[w].pc \in {"check", "iter"}
    \/ threads[w].pc = "wait" /\ (_stop_event \/ clock >= threads[w].wake)

\* Time passes while every thread waits or is inside a callback and the
\* caller is not about to return from join.
SchedTime ==
    /\ clock + SchedTick <= MaxSchedTime
    /\ \A w \in Threads : ~Ready(w)
    /\ ~JoinReturned
    /\ clock' = clock + SchedTick
    /\ schedOp' = "time"
    /\ schedBefore' = Snapshot
    /\ lastExec' = NoExec
    /\ UNCHANGED <<tasks, check_interval, registered, _running, _thread, _stop_event, threads,
                   mainPc, joinStart>>
    /\ OtherUnchanged

NextScheduler ==
    \/ start
    \/ stop
    \/ stop_joined
    \/ \E w \in Threads : _run(w)
    \/ \E w \in Threads : _check_tasks(w)
    \/ \E w \in Threads : \E callback_outcome \in CallbackOutcomes :
          callback(w, callback_outcome)
    \/ \E w \in Threads : wait_returned(w)
    \/ SchedTime

SpecScheduler == InitScheduler /\ [][NextScheduler]_vars

InitTracker ==
    /\ DetectorUnused
    /\ cb = None
    /\ now = 0
    /\ cbOp = "init"
    /\ cbBefore = None
    /\ allowed = FALSE
    /\ streak = 0
    /\ failedAt = 0
    /\ circuit_breakers = [e \in BreakerKeys |-> None]
    /\ cfg = [max_retries |-> DefaultMaxRetries, initial_delay |-> DefaultInitialDelay,
              max_delay |-> DefaultMaxDelay, backoff_factor |-> DefaultBackoffFactor,
              jitter |-> TRUE, circuit_breaker |-> TRUE]
    /\ NoCall
    /\ SchedulerUnused
    /\ matches = [id \in {} |-> 0]
    /\ trackerNow = 0
    /\ trCall = [op |-> "init"]
    /\ trBefore = matches
    /\ trReturn = <<>>

TrackerOthersUnchanged ==
    UNCHANGED <<detectorVars, breakerVars, retryVars, schedulerVars>>

\* discover_matches(): the returned list is discovered_matches.
discover_matches(teams, responses) ==
    LET done == DiscoverTeams(teams, responses, matches, <<>>)
    IN  /\ trCall' = [op |-> "discover_matches", teams |-> teams, responses |-> responses]
        /\ trBefore' = matches
        /\ IF teams = <<>>
           THEN /\ UNCHANGED matches
                /\ trReturn' = <<<<>>>>
           ELSE /\ matches' = done.matches
                /\ trReturn' = <<done.discovered>>
        /\ UNCHANGED trackerNow
        /\ TrackerOthersUnchanged

\* update_match_status(match_id): response is what get_match_details and
\* parse_matches give.  The call returns one object, None or the match.
update_match_status(match_id, response) ==
    /\ trCall' = [op |-> "update_match_status", match_id |-> match_id,
                  response |-> response]
    /\ trBefore' = matches
    /\ IF match_id \notin DOMAIN matches
       THEN /\ UNCHANGED matches
            /\ trReturn' = <<None>>
       ELSE IF response = FetchError \/ response = <<>>
       THEN /\ UNCHANGED matches
            /\ trReturn' = <<None>>
       ELSE /\ matches' = [matches EXCEPT ![match_id] = Head(response)]
            /\ trReturn' = <<Head(response)>>
    /\ UNCHANGED trackerNow
    /\ TrackerOthersUnchanged

\* clean_old_matches(days) with the configured match_history_days.
clean_old_matches(days, configured) ==
    LET old == old_matches(matches, trackerNow, HistoryDays(days, configured))
    IN  /\ trCall' = [op |-> "clean_old_matches", days |-> days, configured |-> configured]
        /\ trBefore' = matches
        /\ matches' = [id \in DOMAIN matches \ old |-> matches[id]]
        /\ trReturn' = <<Cardinality(old)>>
        /\ UNCHANGED trackerNow
        /\ TrackerOthersUnchanged

\* Time passes between calls.
TrackerTime ==
    /\ trackerNow + TrackerTick <= MaxTrackerTime
    /\ trackerNow' = trackerNow + TrackerTick
    /\ trCall' = [op |-> "time"]
    /\ trBefore' = matches
    /\ trReturn' = <<>>
    /\ UNCHANGED matches
    /\ TrackerOthersUnchanged

NextTracker ==
    \/ \E teams \in TeamConfigs :
         \E ra \in TeamResponses("A") : \E rb \in TeamResponses("B") :
            discover_matches(teams, [t \in TeamIds |-> IF t = "A" THEN ra ELSE rb])
    \/ \E match_id \in TrackedIds \cup {"999"} :
         \E response \in {FetchError, <<>>}
                          \cup {<<m>> : m \in {x \in TrackedMatch : x.id = match_id}} :
            update_match_status(match_id, response)
    \/ \E days \in {NoDays, 0, 1} : \E configured \in {NoDays, 0, 2} :
         clean_old_matches(days, configured)
    \/ TrackerTime

SpecTracker == InitTracker /\ [][NextTracker]_vars

\* --------------------------------------------------------------------- C21
\* Failures that carry an HTTP status in [400,500) other than 429: the
\* requests.HTTPError for a 404 response, and the generic client error that
\* _make_request raises from it.
ClientErrorKinds == {"HTTPError404", "APIClientError404"}

\* C21: a call whose first invocation of func fails with a client error
\* carrying a 4xx status other than 429 has ended after that one invocation,
\* re-raising the error.
C21_ClientErrorNotRetried ==
    (attempts # <<>> /\ attempts[1] \in ClientErrorKinds) =>
      /\ pc = "idle"
      /\ callResult = "raised"
      /\ raisedErr = attempts[1]
      /\ Len(attempts) = 1
      /\ sleeps = <<>>

\* --------------------------------------------------------------------- C22
\* Exception kinds outside retry_on_exceptions and its subclasses.
NonRetryableKinds == {k \in Outcomes \ {"ok"} : Bases(k) \cap retry_on_exceptions = {}}

\* C22: a call in which func raised an exception outside the retryable set
\* ended with that invocation, re-raising the exception: the exception is the
\* last attempt, and when it is the first attempt there was one invocation
\* and no sleep.
C22_NonRetryable ==
    /\ "ValueError" \in NonRetryableKinds
    /\ \A i \in 1..Len(attempts) :
         attempts[i] \in NonRetryableKinds =>
           /\ i = Len(attempts)
           /\ pc = "idle"
           /\ callResult = "raised"
           /\ raisedErr = attempts[i]
           /\ Len(sleeps) = i - 1

C22_Witness ==
    /\ cfg.max_retries = MaxRetries
    /\ attempts = <<"ValueError">>
    /\ sleeps = <<>>
    /\ callResult = "raised"
    /\ raisedErr = "ValueError"

\* --------------------------------------------------------------------- C23
\* failure_count of the endpoint's breaker when the call began (0 for a
\* breaker the call created).
StartCount == IF startBreaker = None THEN 0 ELSE startBreaker.failure_count

\* C23: with a breaker, a call whose k invocations so far all failed has
\* raised the breaker's failure_count by exactly k.
C23_RecordedPerAttempt ==
    (cfg.circuit_breaker /\ attempts # <<>> /\ "ok" \notin Range(attempts)) =>
       circuit_breakers[endpoint].failure_count = StartCount + Len(attempts)

\* --------------------------------------------------------------------- C24
\* C24: after a wrapper call returned, the breaker of its endpoint is CLOSED
\* with failure_count 0, whatever it was when the call began or during the
\* call; record_success on any registered breaker gives CLOSED with count 0.
C24_SuccessResets ==
    /\ (cfg.circuit_breaker /\ callResult = "returned") =>
          /\ attempts[Len(attempts)] = "ok"
          /\ circuit_breakers[endpoint].state = "CLOSED"
          /\ circuit_breakers[endpoint].failure_count = 0
    /\ \A k \in BreakerKeys :
          circuit_breakers[k] # None =>
            /\ record_success(circuit_breakers[k]).state = "CLOSED"
            /\ record_success(circuit_breakers[k]).failure_count = 0

\* A call that began with four failures on the breaker, opened it with its
\* first invocation and succeeded with its retry.
C24_Witness ==
    /\ cfg.circuit_breaker
    /\ callResult = "returned"
    /\ StartCount = DefaultFailureThreshold - 1
    /\ Len(attempts) = 2
    /\ openInvocation = "retry"
    /\ circuit_breakers[endpoint].state = "CLOSED"
    /\ circuit_breakers[endpoint].failure_count = 0

\* --------------------------------------------------------------------- C25
\* C25: a step of a wrapper call changes the breaker of no key but the call's
\* own; a breaker appears in the registry only when a call on its key begins,
\* and it starts CLOSED with no failures; a call on a key that already has a
\* breaker works on that breaker (its failure_count is kept, not restarted).
C25_PerEndpoint ==
    [][ /\ \A k \in BreakerKeys \ {endpoint'} :
             circuit_breakers'[k] = circuit_breakers[k]
        /\ \A k \in BreakerKeys :
             (circuit_breakers[k] = None /\ circuit_breakers'[k] # None) =>
                /\ pc = "idle"
                /\ circuit_breakers'[k] =
                     CircuitBreaker(DefaultFailureThreshold, DefaultRecoveryTimeout)
        /\ (pc = "idle" /\ circuit_breakers[endpoint'] # None) =>
             /\ circuit_breakers'[endpoint'] # None
             /\ circuit_breakers'[endpoint'].failure_count =
                  circuit_breakers[endpoint'].failure_count
      ]_vars

\* The breaker of "fixtures" is OPEN after five or more failures while a call on
\* "teams" runs on a breaker with one failure and "unknown" has none yet.
C25_Witness ==
    /\ circuit_breakers["fixtures"] # None
    /\ circuit_breakers["fixtures"].state = "OPEN"
    /\ circuit_breakers["fixtures"].failure_count >= DefaultFailureThreshold
    /\ endpoint = "teams"
    /\ pc = "running"
    /\ circuit_breakers["teams"].failure_count = 1
    /\ circuit_breakers["teams"].state = "CLOSED"
    /\ circuit_breakers["unknown"] = None

\* --------------------------------------------------------------------- C26
\* C26: an invocation that raised RateLimitError while a retry was left was
\* followed by a sleep whose delay before jitter is min(max_delay, 2 * delay),
\* at most max_delay, and the call went on to another invocation; with no
\* retry left the call ended raising RateLimitError.
C26_RateLimit ==
    \A i \in 1..Len(attempts) :
      attempts[i] = "RateLimitError" =>
        IF i <= cfg.max_retries
        THEN /\ Len(sleeps) >= i
             /\ sleeps[i].pre = Min(cfg.max_delay, 2 * sleeps[i].base)
             /\ sleeps[i].pre <= cfg.max_delay
             /\ sleeps[i].sup2 <= 3 * cfg.max_delay
             /\ (pc = "idle" => Len(attempts) > i)
        ELSE /\ i = Len(attempts)
             /\ pc = "idle"
             /\ callResult = "raised"
             /\ raisedErr = "RateLimitError"

\* Two rate-limited invocations: the first sleep is the doubled delay, the
\* second is cut to max_delay.
C26_Witness ==
    /\ cfg.max_delay = SmallMaxDelay
    /\ cfg.initial_delay = DefaultInitialDelay
    /\ cfg.backoff_factor = DefaultBackoffFactor
    /\ Len(attempts) = 3
    /\ attempts[1] = "RateLimitError"
    /\ attempts[2] = "RateLimitError"
    /\ Len(sleeps) = 2
    /\ sleeps[1].pre = 2 * DefaultInitialDelay
    /\ sleeps[2].base = 2
    /\ sleeps[2].pre = SmallMaxDelay

\* --------------------------------------------------------------------- C27
RECURSIVE Pow(_, _)
Pow(b, k) == IF k = 0 THEN 1 ELSE b * Pow(b, k - 1)

\* Retryable failures other than RateLimitError.
OrdinaryKinds == {k \in Outcomes \ {"ok"} : ExceptClause(k) = "retry"}

\* The failures before the first i sleeps were ordinary retryable failures.
OrdinaryUpTo(i) == \A j \in 1..i : attempts[j] \in OrdinaryKinds

\* Without jitter, the sleep before retry k = i - 1 is exactly
\* min(max_delay, initial_delay * backoff_factor^k).
SleepSchedule ==
    \A i \in 1..Len(sleeps) :
      (~cfg.jitter /\ OrdinaryUpTo(i)) =>
         /\ sleeps[i].min2 = 2 * Min(cfg.max_delay,
                                      cfg.initial_delay * Pow(cfg.backoff_factor, i - 1))
         /\ sleeps[i].sup2 = sleeps[i].min2

\* The base delay at every retry is at most max_delay and not below the base
\* delay at the retry before; so is the delay a running call holds.
BaseDelayMonotoneCapped ==
    /\ \A i \in 1..Len(sleeps) :
         (~cfg.jitter /\ OrdinaryUpTo(i)) =>
            /\ sleeps[i].base <= cfg.max_delay
            /\ i > 1 => sleeps[i - 1].base <= sleeps[i].base
    /\ (pc = "running" /\ ~cfg.jitter /\ OrdinaryUpTo(Len(sleeps))) =>
            /\ delay <= cfg.max_delay
            /\ sleeps # <<>> => sleeps[Len(sleeps)].base <= delay

\* C27 as stated: the sleep schedule, and the base delay non-decreasing and
\* at most max_delay, for every decoration.
C27_Original == SleepSchedule /\ BaseDelayMonotoneCapped

\* C27: without jitter and with ordinary retryable failures the sleep before
\* retry k is min(max_delay, initial_delay * backoff_factor^k); when
\* initial_delay <= max_delay the base delay never decreases and never
\* exceeds max_delay; when initial_delay > max_delay the base delay starts
\* above max_delay, is max_delay from the second retry on, and every sleep
\* is max_delay.
C27_Backoff ==
    /\ SleepSchedule
    /\ cfg.initial_delay <= cfg.max_delay => BaseDelayMonotoneCapped
    /\ (cfg.initial_delay > cfg.max_delay /\ ~cfg.jitter) =>
         \A i \in 1..Len(sleeps) :
           OrdinaryUpTo(i) =>
             /\ sleeps[i].pre = cfg.max_delay
             /\ sleeps[i].base = IF i = 1 THEN cfg.initial_delay ELSE cfg.max_delay

\* Two retries without jitter: the second sleep is cut from 4 to max_delay.
C27_Witness ==
    /\ ~cfg.jitter
    /\ cfg.initial_delay = MidInitialDelay
    /\ cfg.max_delay = SmallMaxDelay
    /\ cfg.backoff_factor = DefaultBackoffFactor
    /\ Len(sleeps) = 2
    /\ OrdinaryUpTo(2)
    /\ sleeps[1].min2 = 2 * MidInitialDelay
    /\ sleeps[2].min2 = 2 * SmallMaxDelay
    /\ sleeps[2].base = SmallMaxDelay

\* --------------------------------------------------------------------- C28
\* Scheduler.is_running()
is_running == _running

\* C28: a start() on a running scheduler and a stop() on a stopped scheduler
\* change nothing the caller can observe (running flag, thread, stop event,
\* task table, threads started); after any start() is_running() is True and
\* after any stop() that has returned it is False.
C28_Idempotent ==
    /\ schedOp = "start" =>
         /\ is_running
         /\ schedBefore.running => Snapshot = schedBefore
    /\ schedOp = "stop" =>
         /\ ~is_running
         /\ ~schedBefore.running => Snapshot = schedBefore

\* start() on a scheduler whose one worker is alive: still one worker.
C28_Witness ==
    /\ schedOp = "start"
    /\ schedBefore.running
    /\ Born = {1}
    /\ is_alive(1)
    /\ _thread = 1
    /\ is_running

\* --------------------------------------------------------------------- C29
\* C29: a worker thread that was alive when stop() set the stop event begins
\* no further tick: it never passes the test of its loop again.
C29_StopObserved ==
    \A w \in Threads : threads[w].asked => ~threads[w].lateTick

\* --------------------------------------------------------------------- C30
\* next_run of a task that was executed at time t.
NextRunAfter(task, t) ==
    IF task.interval # NoInterval THEN t + task.interval
    ELSE IF \E x \in task.run_at : x > t
         THEN CHOOSE x \in task.run_at : x > t /\ \A y \in task.run_at : y > t => x <= y
         ELSE NoTime

\* C30: the Task.execute() that has just finished set last_run to the time
\* it finished and next_run from it, the same task state whether the
\* callback returned or raised; no worker thread ended because of a callback
\* exception; after a callback raised, the check went on with the rest of
\* the table, so a check that has ended visited every task of the table.
C30_FailingTick ==
    /\ lastExec # NoExec =>
         /\ lastExec.after.last_run = lastExec.at
         /\ lastExec.after.next_run = NextRunAfter(lastExec.before, lastExec.at)
         /\ lastExec.after = execute(lastExec.before, "return", lastExec.at).task
         /\ lastExec.name \in DOMAIN tasks
         /\ tasks[lastExec.name] = lastExec.after
    /\ \A w \in Threads :
         LET self == threads[w]
         IN  /\ self.exit # "callback exception"
             /\ self.pc = "iter" => Len(self.seen) + Len(self.todo) = self.size0
             /\ self.pc = "callback" => Len(self.seen) + Len(self.todo) = self.size0
             /\ self.pc \in {"wait", "check"} => Len(self.seen) = self.size0

\* A worker whose check at 0 had a raising callback is in a later check, in
\* which the callback of "poll" raised and that of "digest" then ran.
C30_Witness ==
    \E w \in Threads :
       /\ threads[w].raisedBefore
       /\ threads[w].pc = "wait"
       /\ threads[w].seen = <<[name |-> "poll", outcome |-> "raise"],
                              [name |-> "digest", outcome |-> "return"]>>
       /\ tasks["poll"].last_run = SchedTick
       /\ tasks["poll"].next_run = 2 * SchedTick

\* --------------------------------------------------------------------- C31
\* C31: update_match_status returns a pair (updated_match, status_changed):
\* (None, False) for a match id the tracker does not know, and otherwise the
\* polled match together with status_changed = TRUE exactly when the polled
\* status differs from the stored one.
C31_ReturnsPair ==
    trCall.op = "update_match_status" =>
        /\ Len(trReturn) = 2
        /\ IF trCall.match_id \notin DOMAIN trBefore
           THEN trReturn = <<None, FALSE>>
           ELSE (trCall.response # FetchError /\ trCall.response # <<>>) =>
                    /\ trReturn[1] = Head(trCall.response)
                    /\ trReturn[2] =
                         (Head(trCall.response).status # trBefore[trCall.match_id].status)

\* --------------------------------------------------------------------- C32
\* C32: every known match id is in exactly one lifecycle bucket and the
\* bucket agrees with the stored status: upcoming for SCHEDULED/TIMED, active
\* for IN_PLAY/HALF_TIME/PAUSED, recent for terminal statuses.  The buckets
\* are the views the getters give: get_upcoming_matches(), get_active_matches()
\* and get_matches_by_status() over the terminal statuses.
C32_Buckets ==
    LET upcoming == get_upcoming_matches(matches, trackerNow, DefaultUpcomingHours)
        active == get_active_matches(matches)
        recent == UNION {get_matches_by_status(matches, status) : status \in TerminalSet}
        BucketsOf(id) ==
            {b \in {"upcoming", "active", "recent"} :
                \/ b = "upcoming" /\ id \in upcoming
                \/ b = "active" /\ id \in active
                \/ b = "recent" /\ id \in recent}
    IN  \A id \in DOMAIN matches :
            /\ Cardinality(BucketsOf(id)) = 1
            /\ matches[id].status \in UpcomingStatuses => BucketsOf(id) = {"upcoming"}
            /\ matches[id].status \in ActiveStatuses => BucketsOf(id) = {"active"}
            /\ matches[id].status \in TerminalSet => BucketsOf(id) = {"recent"}

\* --------------------------------------------------------------------- C33
\* C33: clean_old_matches removes exactly the matches whose status is
\* terminal (FINISHED, CANCELLED, POSTPONED) and whose start time is older
\* than the retention window, returns the number removed, and leaves every
\* other match as it was.
C33_Pruning ==
    trCall.op = "clean_old_matches" =>
        LET Removed == DOMAIN trBefore \ DOMAIN matches
            Cutoff == trackerNow
                        - HistoryDays(trCall.days, trCall.configured) * HoursPerDay
        IN  /\ DOMAIN matches \subseteq DOMAIN trBefore
            /\ Removed = {id \in DOMAIN trBefore :
                            /\ trBefore[id].status \in {"FINISHED", "CANCELLED", "POSTPONED"}
                            /\ trBefore[id].start_time < Cutoff}
            /\ trReturn = <<Cardinality(Removed)>>
            /\ \A id \in DOMAIN matches : matches[id] = trBefore[id]

\* A call that removed an old finished match and kept an old match that is
\* not terminal.
C33_Witness ==
    /\ trCall.op = "clean_old_matches"
    /\ DOMAIN trBefore \ DOMAIN matches # {}
    /\ \E id \in DOMAIN matches :
          /\ matches[id].start_time
                < trackerNow - HistoryDays(trCall.days, trCall.configured) * HoursPerDay
          /\ matches[id].status \notin TerminalSet

\* --------------------------------------------------------------------- C34
\* C34: in one discover_matches pass a failure while processing one
\* configured team does not propagate to the caller, leaves the matches
\* already stored unchanged, and the matches of the non-failing teams are still
\* stored and (when new) returned.
C34_Isolation ==
    trCall.op = "discover_matches" =>
        LET FetchedTeams ==
                {trCall.teams[i] : i \in 1..Len(trCall.teams)} \ {NoTeamId}
            FailedTeams == {t \in FetchedTeams : trCall.responses[t] = FetchError}
            Delivered ==
                UNION {Range(trCall.responses[t]) : t \in FetchedTeams \ FailedTeams}
        IN  FailedTeams # {} =>
              /\ Len(trReturn) = 1
              /\ \A m \in Delivered :
                    /\ m.id \in DOMAIN matches
                    /\ matches[m.id] = m
                    /\ m.id \notin DOMAIN trBefore => m \in Range(trReturn[1])
              /\ \A id \in DOMAIN trBefore :
                    /\ id \in DOMAIN matches
                    /\ id \notin {m.id : m \in Delivered} => matches[id] = trBefore[id]
              /\ DOMAIN matches = DOMAIN trBefore \cup {m.id : m \in Delivered}

\* The first team failed, a match was already stored, and the second team's
\* new match was stored and returned.
C34_Witness ==
    /\ trCall.op = "discover_matches"
    /\ trCall.teams = <<"A", "B">>
    /\ trCall.responses["A"] = FetchError
    /\ trCall.responses["B"] # FetchError
    /\ "g1" \in DOMAIN trBefore
    /\ "g2" \notin DOMAIN trBefore
    /\ Len(trReturn[1]) = 1
    /\ "g2" \in DOMAIN matches

PairIds == {"m1", "m2"}
PairMatch ==
    [id : PairIds, status : {"SCHEDULED", "IN_PLAY"}, home : 0..MaxPairGoals, away : {0}]

InitPair ==
    /\ BreakerUnused
    /\ previous_states = [mid \in PairIds |-> None]
    /\ detected_events = {}
    /\ statusRepr \in {"enum", "str"}
    /\ matchAttrs = DetectorAttrs
    /\ statesBefore = previous_states
    /\ InitHistory

NextPair ==
    \/ \E match \in PairMatch : detect_events(match)
    \/ reset

SpecPair == InitPair /\ [][NextPair]_vars

C37_StateCounter ==
    /\ cb.failure_threshold >= 1
    /\ cb.state \in {"CLOSED", "OPEN", "HALF-OPEN"}
    /\ cb.state = "CLOSED" <=> cb.failure_count < cb.failure_threshold
    /\ cb.state \in {"OPEN", "HALF-OPEN"} => cb.failure_count >= cb.failure_threshold

\* A failure recorded in HALF-OPEN reopened the breaker above its threshold.
C37_Witness ==
    /\ cbOp = "record_failure"
    /\ cbBefore.state = "HALF-OPEN"
    /\ cb.state = "OPEN"
    /\ cb.failure_count > cb.failure_threshold

\* --------------------------------------------------------------------- C38
\* C38: when the wrapper raises CircuitBreakerError because allow_request()
\* returned False, the breaker's state, failure_count and last_failure_time
\* are what they were when the call began, so a rejected call does not
\* postpone the moment at which the breaker becomes HALF-OPEN.
C38_RejectedUntouched ==
    Rejected =>
        /\ startBreaker # None
        /\ circuit_breakers[endpoint].state = startBreaker.state
        /\ circuit_breakers[endpoint].failure_count = startBreaker.failure_count
        /\ circuit_breakers[endpoint].last_failure_time = startBreaker.last_failure_time
        /\ circuit_breakers[endpoint].state = "OPEN"

\* A call rejected at a later clock reading than the breaker's last failure:
\* last_failure_time still is the earlier reading.
C38_Witness ==
    /\ Rejected
    /\ startBreaker # None
    /\ startedAt > startBreaker.last_failure_time
    /\ circuit_breakers[endpoint].last_failure_time < startedAt
    /\ circuit_breakers[endpoint].state = "OPEN"

\* --------------------------------------------------------------------- C39
\* C39: across every sequence of start() and stop() calls, a stop() whose
\* join timed out followed by a new start() included, at most one worker
\* loop is alive at any time.
C39_SingleWorker == Cardinality({w \in Threads : is_alive(w)}) <= 1

\* ------------------------------------------------ registration while running
\* add_task and remove_task are called by the registering caller, or from
\* inside a task callback, while the worker may be iterating the table.
CanRegister == mainPc = "idle" \/ \E w \in Threads : threads[w].pc = "callback"

\* The entries a dict iterator has still to visit, after name was deleted.
Without(todo, name) == SelectSeq(todo, LAMBDA n : n # name)

\* Scheduler.add_task(name, callback, interval, run_at, run_once=...):
\* ValueError without interval and run_at, or for a name that exists. The
\* new entry is the last of the dict, ahead of every iterator at work.
add_task(name, interval, run_at, run_once) ==
    /\ CanRegister
    /\ registered < MaxRegistrations
    /\ registered' = registered + 1
    /\ schedBefore' = Snapshot
    /\ IF (interval = NoInterval /\ run_at = {}) \/ name \in DOMAIN tasks
       THEN /\ schedOp' = "add_task ValueError"
            /\ UNCHANGED <<tasks, threads>>
       ELSE /\ schedOp' = "add_task"
            /\ tasks' = [n \in DOMAIN tasks \cup {name} |->
                           IF n = name THEN Task(interval, run_at, run_once, clock)
                           ELSE tasks[n]]
            /\ threads' = [w \in Threads |->
                             IF threads[w].pc \in {"iter", "callback"}
                             THEN [threads[w] EXCEPT !.todo = Append(@, name)]
                             ELSE threads[w]]
    /\ lastExec' = NoExec
    /\ UNCHANGED <<check_interval, _running, _thread, _stop_event, clock,
                   mainPc, joinStart>>
    /\ OtherUnchanged

\* Scheduler.remove_task(name)
remove_task(name) ==
    /\ CanRegister
    /\ registered < MaxRegistrations
    /\ registered' = registered + 1
    /\ schedBefore' = Snapshot
    /\ schedOp' = IF name \in DOMAIN tasks THEN "remove_task" ELSE "remove_task False"
    /\ tasks' = remove_tasks(tasks, {name})
    /\ threads' = [w \in Threads |->
                     IF threads[w].pc = "iter"
                     THEN [threads[w] EXCEPT !.todo = Without(@, name)]
                     ELSE IF threads[w].pc = "callback"
                     THEN [threads[w] EXCEPT !.todo = <<Head(@)>> \o Without(Tail(@), name)]
                     ELSE threads[w]]
    /\ lastExec' = NoExec
    /\ UNCHANGED <<check_interval, _running, _thread, _stop_event, clock,
                   mainPc, joinStart>>
    /\ OtherUnchanged

\* A scheduler that is started and kept running while tasks are registered
\* and removed.
NextRegistration ==
    \/ start
    \/ \E w \in Threads : _run(w)
    \/ \E w \in Threads : _check_tasks(w)
    \/ \E w \in Threads : \E callback_outcome \in CallbackOutcomes :
          callback(w, callback_outcome)
    \/ \E w \in Threads : wait_returned(w)
    \/ SchedTime
    \/ \E name \in TaskNames :
         \/ add_task(name, SchedTick, {}, TRUE)
         \/ add_task(name, NoInterval, {}, FALSE)
    \/ \E name \in TaskNames : remove_task(name)

SpecRegistration == InitScheduler /\ [][NextRegistration]_vars

\* --------------------------------------------------------------------- C40
\* C40: add_task or remove_task called while the worker is iterating the
\* task table never makes the worker loop terminate, and the scheduler never
\* is in a state where is_running() is True, no stop() is in progress and no
\* worker loop is alive.
C40_RegistrationSafe ==
    /\ \A w \in Threads : threads[w].exit # "RuntimeError"
    /\ (is_running /\ mainPc = "idle") => \E w \in Threads : is_alive(w)

====
